---- MODULE Spec2Model ----
(***************************************************************************)
(* Model of LunCV/RingBuffer.py (class RingBufferClass): the rolling       *)
(* Observation lists, the per-frame candidate extraction and the           *)
(* "gauntlet" that pairs Observations of adjacent frames into Segments,    *)
(* joins Segments into 22-column Track rows and filters them.              *)
(*                                                                         *)
(* Representation.  A numpy row is a function over 0..(n-1), so that       *)
(* row[4] here is inout[:, 4] there; a numpy 2-D array is a sequence of    *)
(* rows.  float64 values are carried as integers in a fixed unit:          *)
(*   - raw contour centres (cv2.minEnclosingCircle) in 1/XYDen pixel,      *)
(*   - raw contour radii in 1/RadDen pixel,                                *)
(*   - column 8/19 (distance) and 9/20 (speed) in 1/FxDen pixel, floor,    *)
(*   - column 10/21 (bearing) in 1/AngDen degree, nearest.                 *)
(* The integer columns produced by .astype(int) are exact.                 *)
(***************************************************************************)
EXTENDS Integers, Sequences, FiniteSets, TLC

VARIABLES pfs, last, tim, rad, xxx, yyy, err, fourlist, emitted, img, call,
          files, mixed, cycled

vars == <<pfs, last, tim, rad, xxx, yyy, err, fourlist, emitted, img, call,
          files, mixed, cycled>>

\* The frame window on disk: files[k] is procpath/Frame_minus_k.npy, mixed is
\* procpath/Frame_mixed.npy.  cycled is the record of the ringbuffer_cycle
\* calls made so far (frame counter and image of each), kept for the
\* properties only.
ring == <<files, mixed, cycled>>

(***************************************************************************)
(* Bounds of the model.                                                    *)
(***************************************************************************)
MaxFrame == 3
MaxObs == 4
MaxRows == 2
MaxRingFrame == 4
MaxCycles == 3

(***************************************************************************)
(* Units of the fixed-point representation.                                *)
(***************************************************************************)
XYDen == 100
RadDen == 100000
FxDen == 100
AngDen == 1000

(***************************************************************************)
(* Program constants.                                                      *)
(***************************************************************************)
DefaultLast == 5
WindowExtra == 2
PerimMin == 8
PerimMax == 200
ScaleXY == 10
ScaleRad == 10000
smin == 2
smax == 200
radii_minimum == 2
radii_maximum == 316000
threshmax == 450
Uint8 == 256
HitValue == 255
\* Tolerances (__init__ defaults) as <<numerator, denominator>>.
radr == <<10, 1>>
rada == <<0, 1>>
sper == <<1, 10>>
spea == <<1, 1>>
angr == <<5, 100>>
anga == <<2, 100000>>

(***************************************************************************)
(* Arithmetic helpers.                                                     *)
(***************************************************************************)
Abs(n) == IF n < 0 THEN -n ELSE n

Sign(n) == IF n > 0 THEN 1 ELSE IF n < 0 THEN -1 ELSE 0

RECURSIVE Gcd(_, _)
Gcd(a, b) == IF b = 0 THEN a ELSE Gcd(b, a % b)

\* Python's & on two non-negative ints.
RECURSIVE BitAnd(_, _)
BitAnd(a, b) ==
    IF a = 0 \/ b = 0 THEN 0
    ELSE (a % 2) * (b % 2) + 2 * BitAnd(a \div 2, b \div 2)

\* Largest s in lo..hi with s*s <= n.
RECURSIVE ISqrtIn(_, _, _)
ISqrtIn(n, lo, hi) ==
    IF lo >= hi THEN lo
    ELSE LET mid == (lo + hi + 1) \div 2
         IN  IF mid * mid <= n THEN ISqrtIn(n, mid, hi) ELSE ISqrtIn(n, lo, mid - 1)

ISqrt(n) == ISqrtIn(n, 0, 46340)

\* np.arctan(p/q) * (180/np.pi) for the reduced ratios p/q >= 0 the bounded
\* inputs produce, in 1/AngDen degree.
ArctanTable ==
    (<<0,1>> :> 0) @@ (<<1,1>> :> 45000) @@ (<<1,2>> :> 26565) @@
    (<<1,3>> :> 18435) @@ (<<1,4>> :> 14036) @@ (<<2,1>> :> 63435) @@
    (<<2,3>> :> 33690) @@ (<<3,1>> :> 71565) @@ (<<3,2>> :> 56310) @@
    (<<3,4>> :> 36870) @@ (<<4,1>> :> 75964) @@ (<<4,3>> :> 53130)

\* The value standing for float nan (outside every bearing).
NaN == 2147483647

\* np.arctan(np.divide(num, den)) * (180/np.pi): a float division, so den = 0
\* gives +-inf (arctan +-90 degrees) and 0/0 gives nan.
ArctanDeg(num, den) ==
    IF den = 0
    THEN IF num = 0 THEN NaN ELSE Sign(num) * 90 * AngDen
    ELSE LET g == Gcd(Abs(num), Abs(den))
         IN  Sign(num) * Sign(den) * ArctanTable[<<Abs(num) \div g, Abs(den) \div g>>]

\* np.isclose(a, b, rtol, atol): absolute(a - b) <= (atol + rtol * absolute(b)),
\* False when either side is nan.  a and b are in 1/den units.
\* The inequality is multiplied by the least common denominator of the two
\* tolerances (reduced first, to stay within 32-bit integers).
isclose(a, b, rtol, atol, den) ==
    LET ga == Gcd(atol[1] * den, atol[2])
        an == (atol[1] * den) \div ga
        ad == atol[2] \div ga
        gr == Gcd(rtol[1], rtol[2])
        rn == rtol[1] \div gr
        rd == rtol[2] \div gr
        lcd == (ad * rd) \div Gcd(ad, rd)
    IN  /\ a # NaN
        /\ b # NaN
        /\ Abs(a - b) * lcd <= an * (lcd \div ad) + rn * (lcd \div rd) * Abs(b)

(***************************************************************************)
(* numpy array helpers.                                                    *)
(***************************************************************************)
NCols(row) == Cardinality(DOMAIN row)

Row(seq) == [i \in 0..(Len(seq) - 1) |-> seq[i + 1]]

\* np.column_stack on one row of each operand.
Cat(a, b) ==
    [i \in 0..(NCols(a) + NCols(b) - 1) |-> IF i < NCols(a) THEN a[i] ELSE b[i - NCols(a)]]

AddCol(row, v) == Cat(row, Row(<<v>>))

MapRows(tbl, F(_)) == [k \in 1..Len(tbl) |-> F(tbl[k])]

RowSet(tbl) == {tbl[k] : k \in 1..Len(tbl)}

\* Lexicographic order of two rows on columns lo..hi.
RECURSIVE LexLess(_, _, _, _)
LexLess(a, b, lo, hi) ==
    IF lo > hi THEN FALSE
    ELSE IF a[lo] # b[lo] THEN a[lo] < b[lo]
    ELSE LexLess(a, b, lo + 1, hi)

RECURSIVE SortRows(_)
SortRows(S) ==
    IF S = {} THEN <<>>
    ELSE LET m == CHOOSE x \in S : \A y \in S : x = y \/ LexLess(x, y, 0, NCols(x) - 1)
         IN  <<m>> \o SortRows(S \ {m})

\* np.unique(tbl, axis=0): the distinct rows, sorted.
unique(tbl) == SortRows(RowSet(tbl))

MaxOf(S) == CHOOSE m \in S : \A x \in S : x <= m

(***************************************************************************)
(* gauntlet, single-frame stage.                                           *)
(***************************************************************************)
\* (gdl * np.array([1, 10, 10, 10000])).astype(dtype=int) on one row: the
\* product truncated.  The row holds x, y in 1/XYDen and the radius in
\* 1/RadDen pixel, so value * k / den is value \div (den / k).
ScaleRow(r) ==
    Row(<<r[0] * 1,
          r[1] \div (XYDen \div ScaleXY),
          r[2] \div (XYDen \div ScaleXY),
          r[3] \div (RadDen \div ScaleRad)>>)

ScaleGdl(gdl) == MapRows(gdl, ScaleRow)

radius_threshBothOpen(inout) ==
    SelectSeq(SelectSeq(inout, LAMBDA r : r[3] < radii_maximum),
              LAMBDA r : r[3] > radii_minimum)

radius_thresh(inout) ==
    SelectSeq(SelectSeq(inout, LAMBDA r : r[3] <= radii_maximum),
              LAMBDA r : r[3] >= radii_minimum)

\* One output row per distinct (x, y); temp keeps the rows selected by the
\* boolean column temp[:, 0], the comparison of column 1 alone.
interior_contours(in1) ==
    IF Len(in1) # 0
    THEN LET points == unique(MapRows(in1, LAMBDA r : Row(<<r[1], r[2]>>)))
             temp(i) == SelectSeq(in1, LAMBDA r : r[1] = i[0])
         IN  [k \in 1..Len(points) |->
                Row(<<temp(points[k])[1][0], points[k][0], points[k][1],
                      MaxOf({temp(points[k])[j][3] : j \in 1..Len(temp(points[k]))})>>)]
    ELSE <<>>

(***************************************************************************)
(* gauntlet, pair-of-frames stage.                                         *)
(***************************************************************************)
combineperms(in1, in2) ==
    [k \in 1..(Len(in1) * Len(in2)) |->
        Cat(in1[((k - 1) \div Len(in2)) + 1], in2[((k - 1) % Len(in2)) + 1])]

\* np.divide(np.sqrt(dx^2 + dy^2), 10) in 1/FxDen.
Distance(r) ==
    ISqrt(((r[1] - r[5]) * (r[1] - r[5]) + (r[2] - r[6]) * (r[2] - r[6]))
          * ((FxDen \div 10) * (FxDen \div 10)))

\* out[:, 8]/10 > smin and out[:, 8]/10 < smax.
DistGate(r) == r[8] > smin * 10 * FxDen /\ r[8] < smax * 10 * FxDen

stackdistance(in1, in2) ==
    IF BitAnd(Len(in1), Len(in2)) # 0
    THEN SelectSeq(MapRows(combineperms(in1, in2), LAMBDA r : AddCol(r, Distance(r))),
                   DistGate)
    ELSE <<>>

\* distance / (t1 - t2).  The gauntlet pairs frame p - i with frame p - i - 1,
\* so the divisor is 1 on every row it builds.
getspeed(inout) ==
    MapRows(inout, LAMBDA r : AddCol(r, r[8] \div (r[0] - r[4])))

getdir(inout) ==
    MapRows(inout, LAMBDA r : AddCol(r, ArctanDeg(r[2] - r[6], r[1] - r[5])))

(***************************************************************************)
(* gauntlet, Track stage (22 columns).                                     *)
(***************************************************************************)
\* An empty array is replaced by an empty array of 22 columns: the same
\* (empty) sequence of rows.
gapinghole(inout) == inout

distdirtest(inout) ==
    SelectSeq(SelectSeq(inout, LAMBDA r : isclose(r[8], r[19], sper, spea, FxDen)),
              LAMBDA r : isclose(r[10], r[21], angr, anga, AngDen))

direction_cleanup(inout) ==
    SelectSeq(inout, LAMBDA r :
        Abs(Sign(r[5] - r[1]) + Sign(r[16] - r[12]))
          + Abs(Sign(r[6] - r[2]) + Sign(r[17] - r[13])) = 4)

speedtest(inout) ==
    SelectSeq(SelectSeq(SelectSeq(inout,
        LAMBDA r : r[9] < threshmax * FxDen),
        LAMBDA r : r[20] < threshmax * FxDen),
        LAMBDA r : isclose(r[9], r[20], sper, spea, FxDen))

linear_jumpUnassigned(inout) == inout

linear_jumpNoFrame(inout) ==
    SelectSeq(SelectSeq(inout, LAMBDA r : r[5] = r[12]), LAMBDA r : r[6] = r[13])

linear_jump(inout) ==
    SelectSeq(SelectSeq(SelectSeq(inout,
        LAMBDA r : r[4] = r[11]),
        LAMBDA r : r[5] = r[12]),
        LAMBDA r : r[6] = r[13])

reversal_checkEither(inout) ==
    SelectSeq(inout, LAMBDA r : r[1] # r[16] \/ r[2] # r[17])

reversal_check(inout) ==
    SelectSeq(inout, LAMBDA r : r[1] # r[16] /\ r[2] # r[17])

match_speed(inout) ==
    SelectSeq(inout, LAMBDA r : isclose(r[8], r[19], sper, spea, FxDen))

\* ins[j]: the rows of frame p - i, deduplicated.
FrameRows(gdl, f) == interior_contours(SelectSeq(gdl, LAMBDA r : r[0] = f))

\* outs[j]: Segments between frame p - i and frame p - i - 1.
Segments(in1, in2) ==
    SelectSeq(getdir(getspeed(stackdistance(in1, in2))),
              LAMBDA r : isclose(r[3], r[7], radr, rada, 1))

\* The stacked joins handed to the filter chain.
Joined(gdl, p) ==
    LET g == radius_thresh(ScaleGdl(gdl))
        ins(i) == FrameRows(g, p - i)
        fltx == Segments(ins(0), ins(1))
        flty == Segments(ins(1), ins(2))
        fltz == Segments(ins(2), ins(3))
    IN  combineperms(fltx, flty) \o combineperms(flty, fltz) \o combineperms(fltx, fltz)

gauntlet(gdl, p) ==
    match_speed(reversal_check(linear_jump(speedtest(direction_cleanup(
        distdirtest(gapinghole(Joined(gdl, p))))))))

(***************************************************************************)
(* Methods of the class.                                                   *)
(***************************************************************************)
\* np.column_stack((self.tim, self.xxx, self.yyy, self.rad))
pull_list ==
    [k \in 1..Len(tim) |-> Row(<<tim[k], xxx[k], yyy[k], rad[k]>>)]

\* fourlist[np.where(fourlist[:, 0] == self.pfs)]
CurrentFrameAll(tbl, p) == tbl

CurrentFrame(tbl, p) == SelectSeq(tbl, LAMBDA r : r[0] = p)

\* What the last call returned: nothing yet.
NoReturn ==
    /\ fourlist' = <<>>
    /\ emitted' = <<>>
    /\ img' = "none"
    /\ call' = [fn |-> "none", in1 |-> <<>>, in2 |-> <<>>, out |-> <<>>]

set_pos_frame(p) ==
    /\ pfs' = p
    /\ err' = "none"
    /\ NoReturn
    /\ UNCHANGED <<last, tim, rad, xxx, yyy>>
    /\ UNCHANGED ring

re_init ==
    LET keep == {i \in 1..Len(tim) : tim[i] >= pfs - last}
        Kept(lst) == LET RECURSIVE F(_)
                         F(i) == IF i > Len(lst) THEN <<>>
                                 ELSE (IF i \in keep THEN <<lst[i]>> ELSE <<>>) \o F(i + 1)
                     IN  F(1)
    IN  /\ tim' = Kept(tim)
        /\ xxx' = Kept(xxx)
        /\ yyy' = Kept(yyy)
        /\ rad' = Kept(rad)
        /\ err' = "none"
        /\ NoReturn
        /\ UNCHANGED <<pfs, last>>
        /\ UNCHANGED ring

\* A contour is held by what cv2.arcLength and cv2.minEnclosingCircle give
\* for it: [perimeter, x, y, radius].
get_centers(contours) ==
    /\ NoReturn
    /\ UNCHANGED <<pfs, last>>
    /\ UNCHANGED ring
    /\ IF Len(contours) = 0
       THEN \* cnt = contours[0]
            /\ err' = "IndexError"
            /\ UNCHANGED <<tim, rad, xxx, yyy>>
       ELSE LET ok == SelectSeq(contours,
                         LAMBDA c : c.perimeter > PerimMin /\ c.perimeter < PerimMax)
            IN  /\ tim' = tim \o [k \in 1..Len(ok) |-> pfs]
                /\ rad' = rad \o [k \in 1..Len(ok) |-> ok[k].radius]
                /\ xxx' = xxx \o [k \in 1..Len(ok) |-> ok[k].x]
                /\ yyy' = yyy \o [k \in 1..Len(ok) |-> ok[k].y]
                /\ err' = "none"

call_pull_list ==
    /\ err' = "none"
    /\ NoReturn
    /\ UNCHANGED <<pfs, last, tim, rad, xxx, yyy>>
    /\ UNCHANGED ring

\* bird_range(img, frame, quack, self.pull_list())
bird_range ==
    LET gdl == unique(pull_list)
        four == gauntlet(gdl, pfs)
        cur == CurrentFrame(four, pfs)
    IN  /\ err' = "none"
        /\ fourlist' = four
        /\ emitted' = IF Len(four) = 0 THEN <<>> ELSE cur
        /\ img' = IF Len(four) # 0 /\ Len(cur) > 0 THEN "boxed" ELSE "input"
        /\ call' = [fn |-> "none", in1 |-> <<>>, in2 |-> <<>>, out |-> <<>>]
        /\ UNCHANGED <<pfs, last, tim, rad, xxx, yyy>>
        /\ UNCHANGED ring

(***************************************************************************)
(* Inputs.                                                                 *)
(***************************************************************************)
Px(n) == n * XYDen

RadPx(n) == n * RadDen

Contour(per, x, y, r) == [perimeter |-> per, x |-> x, y |-> y, radius |-> r]

\* Three collinear centres 50 pixels apart, and a speck whose perimeter is
\* not above the lower limit.
TrackContours ==
    { Contour(100, Px(100), Px(100), RadPx(10)),
      Contour(100, Px(130), Px(140), RadPx(10)),
      Contour(100, Px(160), Px(180), RadPx(10)),
      Contour(8, Px(100), Px(100), RadPx(10)) }

\* The four contours of the spec's end-to-end scenario.
ScenarioContours ==
    { Contour(100, Px(100), Px(100), RadPx(10)),
      Contour(100, Px(110), Px(100), RadPx(10)),
      Contour(100, Px(120), Px(100), RadPx(10)),
      Contour(100, Px(130), Px(100), RadPx(10)) }

ContourLists(C) == {<<>>} \cup {<<c>> : c \in C}

\* The look-back the instance is constructed with (self.last = last + 2).
LastArgs == {0}

(***************************************************************************)
(* The frame window as __init__ leaves it.  os.mkdir has just created the  *)
(* directory, so no Frame_minus_k file exists unless __init__ writes it;   *)
(* it writes the all-zero frames only if self.pfs > 0, and at construction *)
(* self.pfs is the class attribute pfs = 0.                                *)
(***************************************************************************)
Absent == <<>>

emptyslug == <<0, 0>>

Seeded(p, l) ==
    [k \in 0..(l - 1) |-> IF p > 0 THEN emptyslug ELSE Absent]

(***************************************************************************)
(* Specifications.                                                         *)
(***************************************************************************)
Init ==
    /\ pfs = 0
    /\ last \in {l + WindowExtra : l \in LastArgs}
    /\ tim = <<>>
    /\ rad = <<>>
    /\ xxx = <<>>
    /\ yyy = <<>>
    /\ err = "none"
    /\ fourlist = <<>>
    /\ emitted = <<>>
    /\ img = "none"
    /\ call = [fn |-> "none", in1 |-> <<>>, in2 |-> <<>>, out |-> <<>>]
    /\ files = Seeded(pfs, last)
    /\ mixed = Absent
    /\ cycled = <<>>

NextOver(C) ==
    \/ \E p \in 0..MaxFrame : p > pfs /\ set_pos_frame(p)
    \/ re_init
    \/ \E c \in ContourLists(C) : Len(tim) + Len(c) <= MaxObs /\ get_centers(c)
    \/ call_pull_list
    \/ bird_range

Next == NextOver(TrackContours)

Spec == Init /\ [][Next]_vars

NextScenario == NextOver(ScenarioContours)

SpecScenario == Init /\ [][NextScenario]_vars

(***************************************************************************)
(* The filters of the gauntlet called on their own, on bounded inputs.     *)
(***************************************************************************)
SeqsUpTo(S, n) == UNION {[1..k -> S] : k \in 0..n}

Returned(fn, a, b, o) == [fn |-> fn, in1 |-> a, in2 |-> b, out |-> o]

Instance == <<pfs, last, tim, rad, xxx, yyy, err, fourlist, emitted, img, ring>>

\* Raw radii (1/RadDen pixel) around both limits of radius_thresh.
RawRadii ==
    {0, 19, 20, RadPx(1), RadPx(2), RadPx(10), 3160009, 3160010, RadPx(40), RadPx(21474)}

RadiusRows == {Row(<<0, Px(100), Px(100), r>>) : r \in RawRadii}

\* gauntlet, lines 318-320: the scaled list through radius_thresh.
call_radius_thresh ==
    /\ call.fn = "none"
    /\ \E gdl \in SeqsUpTo(RadiusRows, MaxRows) :
           /\ call' = Returned("radius_thresh", gdl, <<>>, radius_thresh(ScaleGdl(gdl)))
           /\ UNCHANGED Instance

\* Scaled rows of one frame: two x, two y, two radii.
DedupRows ==
    {Row(<<0, x, y, r>>) : x \in {1000, 1300}, y \in {1000, 1400}, r \in {50000, 100000}}

call_interior_contours ==
    /\ call.fn = "none"
    /\ \E in1 \in SeqsUpTo(DedupRows, MaxRows) :
           /\ call' = Returned("interior_contours", in1, <<>>, interior_contours(in1))
           /\ UNCHANGED Instance

\* Scaled rows of frame 1 at 1.5, 10, 20, 50 and 300 pixels from (100, 100),
\* and of frame 0 at (100, 100) and (100, 140).
StackRows1 ==
    {Row(<<1, xy[1], xy[2], 100000>>) :
        xy \in {<<1015, 1000>>, <<1100, 1000>>, <<1200, 1000>>, <<1300, 1400>>, <<4000, 1000>>}}

StackRows0 == {Row(<<0, 1000, y, 100000>>) : y \in {1000, 1400}}

call_stackdistance ==
    /\ call.fn = "none"
    /\ \E in1 \in SeqsUpTo(StackRows1, MaxRows), in2 \in SeqsUpTo(StackRows0, MaxRows) :
           /\ call' = Returned("stackdistance", in1, in2, stackdistance(in1, in2))
           /\ UNCHANGED Instance

\* Track rows from (100,100), (100,180) or (160,100) through (130,140) to
\* (100,100), (100,180) or (160,100).
EndRows(f) ==
    <<Row(<<f, 1000, 1000, 100000>>), Row(<<f, 1000, 1800, 100000>>),
      Row(<<f, 1600, 1000, 100000>>)>>

MidRows(f) == <<Row(<<f, 1300, 1400, 100000>>)>>

TrackRows ==
    RowSet(combineperms(Segments(EndRows(2), MidRows(1)), Segments(MidRows(1), EndRows(0))))

call_reversal_check ==
    /\ call.fn = "none"
    /\ \E tbl \in SeqsUpTo(TrackRows, MaxRows) :
           /\ call' = Returned("reversal_check", tbl, <<>>, reversal_check(tbl))
           /\ UNCHANGED Instance

\* One Observation in each of the frames p-2, p-1, p.
GauntletInputs(p) ==
    {<<Row(<<p - 2, a.x, a.y, a.radius>>), Row(<<p - 1, b.x, b.y, b.radius>>),
       Row(<<p, c.x, c.y, c.radius>>)>> : a \in TrackContours, b \in TrackContours,
                                           c \in TrackContours}

call_gauntlet ==
    /\ call.fn = "none"
    /\ \E gdl \in GauntletInputs(MaxFrame) :
           /\ call' = Returned("gauntlet", gdl, <<>>, gauntlet(gdl, MaxFrame))
           /\ UNCHANGED Instance

NextUnits ==
    \/ call_radius_thresh
    \/ call_interior_contours
    \/ call_stackdistance
    \/ call_reversal_check
    \/ call_gauntlet

SpecUnits == Init /\ [][NextUnits]_vars

(***************************************************************************)
(* The frame window: ringbuffer_cycle and ringbuffer_process.  An image is *)
(* the sequence of its uint8 pixels; np.add of two uint8 arrays wraps.     *)
(***************************************************************************)
Images == { <<0, 0>>, <<1, 0>>, <<1, 255>> }

\* np.load(procpath + '/Frame_minus_k.npy'); Absent when the file is not there
\* (FileNotFoundError).  Frame_minus_-1 is never written.
Load(f, k) == IF k \in DOMAIN f THEN f[k] ELSE Absent

\* np.add(self.aaa, self.bbb)
Add(a, b) == [j \in 1..Len(a) |-> (a[j] + b[j]) % Uint8]

\* self.bbb[self.bbb > 1] = 0 ; self.bbb[self.bbb == 1] = 255
Clip(a) == [j \in 1..Len(a) |-> IF a[j] > 1 THEN 0 ELSE IF a[j] = 1 THEN HitValue ELSE a[j]]

\* img[img > 0] = 255
Binarise(a) == [j \in 1..Len(a) |-> IF a[j] > 0 THEN HitValue ELSE a[j]]

\* for i in range(self.last, 0, -1): ... of ringbuffer_cycle, from i downwards
RECURSIVE Shift(_, _, _)
Shift(f, p, i) ==
    IF i < 1 THEN f
    ELSE IF p = 0 THEN Shift(f, p, i - 1)
    ELSE IF p - i + 1 >= 0 /\ Load(f, i - 2) # Absent
         THEN Shift([f EXCEPT ![i - 1] = Load(f, i - 2)], p, i - 1)
         ELSE Shift(f, p, i - 1)

ringbuffer_cycle(image) ==
    /\ files' = Shift([files EXCEPT ![0] = image], pfs, last)
    /\ cycled' = Append(cycled, [pfs |-> pfs, img |-> image])
    /\ err' = "none"
    /\ fourlist' = <<>>
    /\ emitted' = <<>>
    /\ img' = "none"
    /\ call' = Returned("ringbuffer_cycle", image, <<>>, <<>>)
    /\ UNCHANGED <<pfs, last, tim, rad, xxx, yyy, mixed>>

\* for i in range(self.last, 1, -1): ... of ringbuffer_process, from i
\* downwards; only TypeError is caught, so a file that is not there ends the
\* call with what was saved so far.
RECURSIVE Accumulate(_, _, _)
Accumulate(f, bbb, i) ==
    IF i < 2 THEN [f |-> f, raised |-> FALSE]
    ELSE IF Load(f, i - 2) = Absent THEN [f |-> f, raised |-> TRUE]
    ELSE LET sum == Add(Load(f, i - 2), bbb)
         IN  Accumulate([f EXCEPT ![0] = sum], sum, i - 1)

NoImage == [pix |-> <<>>, channels |-> 0]

ringbuffer_process(image) ==
    /\ fourlist' = <<>>
    /\ emitted' = <<>>
    /\ img' = "none"
    /\ UNCHANGED <<pfs, last, tim, rad, xxx, yyy, cycled>>
    /\ IF Load(files, 0) = Absent
       THEN \* self.bbb = np.load(... '/Frame_minus_0.npy')
            /\ err' = "FileNotFoundError"
            /\ call' = Returned("ringbuffer_process", image, <<>>, NoImage)
            /\ UNCHANGED <<files, mixed>>
       ELSE IF pfs = 0 \/ ~(pfs >= last)
       THEN /\ err' = "none"
            /\ call' = Returned("ringbuffer_process", image, <<>>,
                                [pix |-> image, channels |-> 1])
            /\ UNCHANGED <<files, mixed>>
       ELSE LET acc == Accumulate(files, Load(files, 0), last)
                bbb == Clip(Load(acc.f, 0))
            IN  IF acc.raised
                THEN /\ err' = "FileNotFoundError"
                     /\ call' = Returned("ringbuffer_process", image, <<>>, NoImage)
                     /\ files' = acc.f
                     /\ UNCHANGED mixed
                ELSE /\ err' = "none"
                     /\ files' = acc.f
                     /\ mixed' = bbb
                     /\ call' = Returned("ringbuffer_process", image, <<>>,
                                   [pix |-> Binarise(bbb),
                                    channels |-> IF Len(tim) > 0 THEN 3 ELSE 1])

\* One accepted contour, so that self.tim is not empty.
RingContours == { Contour(100, Px(100), Px(100), RadPx(10)) }

\* The look-back the instance is constructed with, for the window runs.
RingLastArgs == {0, 2}

InitRing ==
    /\ pfs = 0
    /\ last \in {l + WindowExtra : l \in RingLastArgs}
    /\ tim = <<>>
    /\ rad = <<>>
    /\ xxx = <<>>
    /\ yyy = <<>>
    /\ err = "none"
    /\ fourlist = <<>>
    /\ emitted = <<>>
    /\ img = "none"
    /\ call = [fn |-> "none", in1 |-> <<>>, in2 |-> <<>>, out |-> <<>>]
    /\ files = Seeded(pfs, last)
    /\ mixed = Absent
    /\ cycled = <<>>

NextRing ==
    \/ \E p \in 0..MaxRingFrame : p > pfs /\ set_pos_frame(p)
    \/ \E image \in Images : Len(cycled) < MaxCycles /\ ringbuffer_cycle(image)
    \/ \E image \in Images : ringbuffer_process(image)
    \/ \E c \in RingContours : Len(tim) = 0 /\ get_centers(<<c>>)

SpecRing == InitRing /\ [][NextRing]_vars

(***************************************************************************)
(* Claims.                                                                 *)
(***************************************************************************)
\* bird_range has returned at frame p.
Ranged(p) == img # "none" /\ pfs = p

\* The stacked joins bird_range's gauntlet builds from the current lists.
Candidates == Joined(unique(pull_list), pfs)

\* Row r has the Observation o (a raw row) as one of its four endpoints.
HasEndpoint(r, o) ==
    \E e \in {0, 4, 11, 15} :
        /\ r[e] = o[0]
        /\ r[e + 1] = ScaleRow(o)[1]
        /\ r[e + 2] = ScaleRow(o)[2]

\* One Observation in each of the frames 0, 1, 2, 3, in that order.
OnePerFrame == Len(tim) = 4 /\ \A k \in 1..4 : tim[k] = k - 1

SameXY(i, j) == xxx[i] = xxx[j] /\ yyy[i] = yyy[j]

ScenarioGdl ==
    <<Row(<<0, Px(100), Px(100), RadPx(10)>>), Row(<<1, Px(110), Px(100), RadPx(10)>>),
      Row(<<2, Px(120), Px(100), RadPx(10)>>), Row(<<3, Px(130), Px(100), RadPx(10)>>)>>

\* C1: with the four Observations (0,100,100,10), (1,110,100,10),
\* (2,120,100,10), (3,130,100,10) in the lists, bird_range at frame 3 emits
\* exactly one Track, and both of its Segments have speed 10 and bearing 0.
C1_Scenario ==
    (Ranged(3) /\ pull_list = ScenarioGdl)
        => /\ Len(emitted) = 1
           /\ emitted[1][9] = 10 * FxDen
           /\ emitted[1][20] = 10 * FxDen
           /\ emitted[1][10] = 0
           /\ emitted[1][21] = 0

\* C2 as stated: with one Observation per frame 0..3 and the frame-3
\* Observation at the (x, y) of the frame-0 Observation, no Track emitted at
\* frame 3 has the frame-3 Observation as an endpoint.
C2_ReversalToFrame0 ==
    (Ranged(3) /\ OnePerFrame /\ SameXY(4, 1))
        => \A k \in 1..Len(emitted) : ~HasEndpoint(emitted[k], pull_list[4])

\* C2 amended: with one Observation per frame 0..3 and the frame-3
\* Observation at the (x, y) of the frame-1 Observation (two frames back,
\* the fourth endpoint of a Track emitted at frame 3), no Track emitted at
\* frame 3 has the frame-3 Observation as an endpoint.
C2_ReversalToFrame1 ==
    (Ranged(3) /\ OnePerFrame /\ SameXY(4, 2))
        => \A k \in 1..Len(emitted) : ~HasEndpoint(emitted[k], pull_list[4])

\* The reversal happened and the pairwise and tolerance tests accepted the
\* Track 3-2-2-1: it is among the candidates, passes distdirtest and
\* speedtest, and was not emitted.
C2_Witness ==
    /\ Ranged(3) /\ OnePerFrame /\ SameXY(4, 2)
    /\ \E r \in RowSet(speedtest(distdirtest(Candidates))) :
           r[0] = 3 /\ r[15] = 1 /\ HasEndpoint(r, pull_list[4])
    /\ emitted = <<>>

\* C3 as stated: the four endpoint frames of an emitted Track are the four
\* distinct frames n, n-1, n-2, n-3.
C3_FourFrames ==
    \A k \in 1..Len(emitted) :
        {emitted[k][0], emitted[k][4], emitted[k][11], emitted[k][15]}
            = {pfs, pfs - 1, pfs - 2, pfs - 3}

\* C3 amended: the four endpoint frames of an emitted Track are n, n-1, n-1,
\* n-2: three consecutive frames, the middle one held by both Segments.
C3_ThreeFrames ==
    \A k \in 1..Len(emitted) :
        /\ emitted[k][0] = pfs
        /\ emitted[k][4] = pfs - 1
        /\ emitted[k][11] = pfs - 1
        /\ emitted[k][15] = pfs - 2

C3_Witness == Ranged(3) /\ Len(emitted) > 0

\* C4: a pair of Observations of adjacent frames is kept by stackdistance
\* if and only if its displacement d in pixels has 4 < d^2 < 40000 (the
\* columns hold 10 * pixels, so 400 < dx^2 + dy^2 < 4000000 on them).
C4_DistanceGate ==
    (call.fn = "stackdistance" /\ Len(call.in1) = 1 /\ Len(call.in2) = 1)
        => LET a == call.in1[1]
               b == call.in2[1]
               d2 == (a[1] - b[1]) * (a[1] - b[1]) + (a[2] - b[2]) * (a[2] - b[2])
           IN  (Len(call.out) = 1)
                   <=> (4 * ScaleXY * ScaleXY < d2 /\ d2 < 40000 * ScaleXY * ScaleXY)

\* Every combination of in1 and in2 with its distance, through the gate.
GatedPairs(in1, in2) ==
    SelectSeq([k \in 1..(Len(in1) * Len(in2)) |->
                  LET r == Cat(in1[((k - 1) \div Len(in2)) + 1], in2[((k - 1) % Len(in2)) + 1])
                  IN  AddCol(r, Distance(r))],
              DistGate)

\* C5: stackdistance returns no row when a list is empty, at most
\* |in1| * |in2| rows, and, when both lists are non-empty, one row for each
\* combination that passes the distance gate.
C5_Completeness ==
    call.fn = "stackdistance"
        => /\ (Len(call.in1) = 0 \/ Len(call.in2) = 0) => Len(call.out) = 0
           /\ Len(call.out) <= Len(call.in1) * Len(call.in2)
           /\ (Len(call.in1) > 0 /\ Len(call.in2) > 0)
                  => call.out = GatedPairs(call.in1, call.in2)

\* C6: interior_contours returns one Observation per distinct (x, y) of its
\* input, with the largest radius among the input rows of that x and that y.
C6_Dedup ==
    call.fn = "interior_contours"
        => LET pts == {<<r[1], r[2]>> : r \in RowSet(call.in1)}
               radii(pt) == {r[3] : r \in {q \in RowSet(call.in1) : q[1] = pt[1] /\ q[2] = pt[2]}}
           IN  /\ Len(call.out) = Cardinality(pts)
               /\ \A pt \in pts :
                      \E k \in 1..Len(call.out) :
                          /\ call.out[k][1] = pt[1]
                          /\ call.out[k][2] = pt[2]
                          /\ call.out[k][3] = MaxOf(radii(pt))

\* Row k of the list given to the gauntlet is kept by radius_thresh.
Kept(k) == ScaleRow(call.in1[k]) \in RowSet(call.out)

\* C7 as stated: an Observation is kept if and only if its radius r in
\* pixels has 2 <= r <= 316000.
C7_RadiusInPixels ==
    call.fn = "radius_thresh"
        => \A k \in 1..Len(call.in1) :
               LET r == call.in1[k][3]
               IN  Kept(k) <=> /\ r >= 2 * RadDen
                               /\ \/ r \div RadDen < 316000
                                  \/ r \div RadDen = 316000 /\ r % RadDen = 0

\* C7 amended: an Observation is kept if and only if its radius times 10000,
\* truncated, is in 2..316000: 0.0002 <= r < 31.6001 pixels (r is held in
\* 1/RadDen pixel).
C7_RadiusScaled ==
    call.fn = "radius_thresh"
        => \A k \in 1..Len(call.in1) :
               LET r == call.in1[k][3]
               IN  Kept(k) <=> /\ r >= 2 * (RadDen \div 10000)
                               /\ r < (316000 + 1) * (RadDen \div 10000)

\* A radius of 1 pixel was kept and one of 40 pixels dropped.
C7_Witness ==
    /\ call.fn = "radius_thresh"
    /\ \E k \in 1..Len(call.in1) : call.in1[k][3] = RadPx(1) /\ Kept(k)
    /\ \E k \in 1..Len(call.in1) : call.in1[k][3] = RadPx(40) /\ ~Kept(k)

Continuous(r) == r[4] = r[11] /\ r[5] = r[12] /\ r[6] = r[13]

\* C8: in every Track the gauntlet returns, Segment A's second endpoint
\* (frame, x, y) is Segment B's first endpoint.
C8_Continuity == \A k \in 1..Len(fourlist) : Continuous(fourlist[k])

\* A candidate that every other filter of the chain accepts, whose two
\* Segments do not meet, was rejected.
C8_Witness ==
    /\ img # "none"
    /\ \E r \in RowSet(match_speed(reversal_check(speedtest(direction_cleanup(
                        distdirtest(Candidates)))))) :
           ~Continuous(r) /\ r \notin RowSet(fourlist)

SameEnds(r) == r[1] = r[16] /\ r[2] = r[17]

BothAxesDiffer(r) == r[1] # r[16] /\ r[2] # r[17]

C10_EmptyInEmptyOut ==
    Len(tim) = 0 => (err = "none" /\ emitted = <<>> /\ img # "boxed")

(***************************************************************************)
(* The frame window.                                                       *)
(***************************************************************************)
\* The last ringbuffer_cycle was made at the present frame counter, so that
\* Frame_minus_0 is the present frame.
CycledThisFrame ==
    /\ Len(cycled) > 0
    /\ cycled[Len(cycled)].pfs = pfs

\* C11: Missing frame-window file is not fatal.  In any run (also one whose
\* first frame counter is at or above the window size), when ringbuffer_cycle
\* or ringbuffer_process, called after the cycle of the present frame, reads a
\* Frame_minus_k file that does not exist, the call does not raise.
C11_MissingFileTolerated ==
    (call.fn \in {"ringbuffer_cycle", "ringbuffer_process"} /\ CycledThisFrame)
        => err = "none"

\* Frames 0, 1, 2, ... were submitted in order, one ringbuffer_cycle per frame
\* with the frame counter at the frame index.
InOrder == \A i \in 1..Len(cycled) : cycled[i].pfs = i - 1

Min(a, b) == IF a < b THEN a ELSE b

\* C12: Frame window ordering.  After the ringbuffer_cycle of frame n of an
\* in-order run, the file at offset k holds the frame submitted at step n-k,
\* for every k with 0 <= k <= min(n, last+1) (here last is self.last, the
\* constructor's last plus 2, so the largest offset is last-1).
C12_WindowOrdering ==
    (call.fn = "ringbuffer_cycle" /\ Len(cycled) > 0 /\ InOrder)
        => LET n == Len(cycled) - 1
           IN  \A k \in 0..Min(n, last - 1) : files[k] = cycled[n - k + 1].img

\* The offsets of the window at which pixel j is not zero.
Touching(j) ==
    {k \in DOMAIN files : files[k] # Absent /\ files[k][j] # 0}

\* C13: Composite motion mask.  A ringbuffer_process that returns with the
\* frame counter at or above the window size returns a mask whose pixels are
\* all 0 or 255, 255 where more than one frame of the window is non-zero and
\* 0 where every frame of the window is zero; below the window size it
\* returns its input image and writes no window file.
C13_CompositeMask ==
    [][(call'.fn = "ringbuffer_process" /\ err' = "none")
          => IF pfs >= last
             THEN \A j \in 1..Len(call'.out.pix) :
                     /\ call'.out.pix[j] \in {0, HitValue}
                     /\ Cardinality(Touching(j)) > 1 => call'.out.pix[j] = HitValue
                     /\ Touching(j) = {} => call'.out.pix[j] = 0
             ELSE /\ call'.out.pix = call'.in1
                  /\ files' = files
                  /\ mixed' = mixed]_vars

====
